---------------------------- MODULE Spec2Model ----------------------------
(***************************************************************************)
(* Model of cnki.py: the row parser Result.from_row, the exporter          *)
(* Result.as_bib, the page navigator SearchResults and the pagination      *)
(* walker loop_through_results.                                            *)
(*                                                                         *)
(* Texts are TLA+ strings.  The four database names of the source are not  *)
(* ASCII and are written in pinyin: "qikan" (期刊), "jikan" (輯刊),          *)
(* "boshi" (博士), "shuoshi" (碩士).  An Optional[str] is <<>> for None and   *)
(* <<s>> for the string s.                                                 *)
(***************************************************************************)
EXTENDS Integers, Sequences, FiniteSets, TLC

VARIABLES
    pc,          \* position of the generator loop_through_results
    n_articles,  \* local n_articles of loop_through_results
    n_pages,     \* local n_pages of loop_through_results
    page,        \* loop variable of "for page in count(1)"
    rows,        \* the list "rows" of the running get_structured_elements
    idx,         \* number of rows of "rows" the for loop has taken
    out,         \* the Results yielded to the consumer, in order
    err,         \* the exception that left the generator, "none" if none
    site_articles, \* the result count the results view displays
    per_page,    \* the page size the results view displays (font.numNow)
    bad_row,     \* number of the one malformed row of the site, 0 if none
    bad_kind,    \* which malformed row it is (index into BadRows)
    cur,         \* the page of the site the browser shows
    reads,       \* history: the site page read by each row lookup
    prov,        \* history: <<lookup number, row position>> of each yield
    meta_reads,  \* history: calls of number_of_articles_and_pages
    nav_log,     \* history: driver calls made by the last next_page
    nav_calls,   \* history: calls of next_page
    nav_result,  \* history: how the last next_page ended
    click_fails, \* history: clicks of next_page that failed
    row,         \* the row handed to from_row on its own, <<>> in a walk
    parsed,      \* what from_row gave for row, <<>> before
    bib,         \* what as_bib gave last, <<>> before
    uuid_clock   \* number of identifiers uuid1 has issued

vars == <<pc, n_articles, n_pages, page, rows, idx, out, err, site_articles,
          per_page, bad_row, bad_kind, cur, reads, prov, meta_reads, nav_log,
          nav_calls, nav_result, click_fails, row, parsed, bib, uuid_clock>>

walk_vars == <<pc, n_articles, n_pages, page, rows, idx, out, err,
               site_articles, per_page, bad_row, bad_kind, cur, reads, prov,
               meta_reads, nav_log, nav_calls, nav_result, click_fails>>

row_vars == <<row, parsed, bib, uuid_clock>>

----------------------------------------------------------------------------
(* Bounds of the model.                                                    *)

MaxArticles == 11      \* largest result count the site reports
MaxPerPage == 2        \* largest page size the site displays
MaxClickFail == 2      \* most clicks of next_page that fail in one walk
MaxExports == 2        \* most as_bib calls on one Result

(* The hard page cap of loop_through_results.                              *)
PageCap == 10

None == <<>>
Some(s) == <<s>>

----------------------------------------------------------------------------
(* Text primitives of the Python library, as far as the code uses them.    *)

Char(s, i) == SubSeq(s, i, i)

StartsAt(s, needle, i) ==
    /\ i >= 1
    /\ i + Len(needle) - 1 <= Len(s)
    /\ SubSeq(s, i, i + Len(needle) - 1) = needle

\* str.find + 1: position of the first occurrence of needle in s, 0 if none
Find(s, needle) ==
    LET hits == {i \in 1..Len(s) : StartsAt(s, needle, i)}
    IN  IF hits = {} THEN 0 ELSE CHOOSE i \in hits : \A j \in hits : i <= j

\* str.split(sep, 1): one piece if sep does not occur, else two
split_once(s, sep) ==
    LET i == Find(s, sep)
    IN  IF i = 0 THEN <<s>>
        ELSE <<SubSeq(s, 1, i - 1), SubSeq(s, i + Len(sep), Len(s))>>

HexDigits == "0123456789abcdef"
HexDigitsUpper == "0123456789ABCDEF"

IsHex(c) == Find(HexDigits, c) > 0 \/ Find(HexDigitsUpper, c) > 0

HexVal(c) ==
    IF Find(HexDigits, c) > 0 THEN Find(HexDigits, c) - 1
    ELSE Find(HexDigitsUpper, c) - 1

\* the characters of codes 32 to 95
AsciiLow == " !\"#$%&'()*+,-./0123456789:;<=>?@ABCDEFGHIJKLMNOPQRSTUVWXYZ[\\]^_"

\* the characters of codes 97 to 126
AsciiHigh == "abcdefghijklmnopqrstuvwxyz{|}~"

\* the character of one decoded byte; a byte that is not ASCII and stands
\* alone is not valid UTF-8 and decodes to the replacement character
Chr(b) ==
    IF b >= 32 /\ b <= 95 THEN Char(AsciiLow, b - 31)
    ELSE IF b >= 97 /\ b <= 126 THEN Char(AsciiHigh, b - 96)
    ELSE IF b = 96 THEN "<GRAVE>"
    ELSE IF b >= 128 THEN "<U+FFFD>"
    ELSE "<CTL>"

\* urllib.parse.unquote: every %XX with two hex digits becomes the character
\* of that byte, everything else is kept
RECURSIVE unquote(_)
unquote(s) ==
    IF s = "" THEN ""
    ELSE IF /\ Char(s, 1) = "%"
            /\ Len(s) >= 3
            /\ IsHex(Char(s, 2))
            /\ IsHex(Char(s, 3))
         THEN Chr(16 * HexVal(Char(s, 2)) + HexVal(Char(s, 3)))
                  \o unquote(SubSeq(s, 4, Len(s)))
         ELSE Char(s, 1) \o unquote(SubSeq(s, 2, Len(s)))

\* re.search("javascript:alert.+", s) finds something: the literal occurs
\* and is followed by at least one character other than a newline
AlertPattern == "javascript:alert"

re_search_alert(s) ==
    \E i \in 1..Len(s) :
        /\ StartsAt(s, AlertPattern, i)
        /\ i + Len(AlertPattern) <= Len(s)
        /\ Char(s, i + Len(AlertPattern)) # "\n"

IsSpace(c) == c \in {" ", "\t", "\n", "\r"}

\* str.split(maxsplit=1): <<>> when s has no token, else the first token
\* first (the rest of the text is not used by the code)
first_token(s) ==
    LET starts == {i \in 1..Len(s) : ~IsSpace(Char(s, i))}
    IN  IF starts = {} THEN <<>>
        ELSE LET b == CHOOSE i \in starts : \A j \in starts : i <= j
                 ends == {i \in b..Len(s) :
                             i = Len(s) \/ IsSpace(Char(s, i + 1))}
                 e == CHOOSE i \in ends : \A j \in ends : i <= j
             IN  <<SubSeq(s, b, e)>>

Digits == "0123456789"

IsDigit(c) == Find(Digits, c) > 0

DigitVal(c) == Find(Digits, c) - 1

AllDigits(s) == \A i \in 1..Len(s) : IsDigit(Char(s, i))

RECURSIVE ToInt(_)
ToInt(s) ==
    IF s = "" THEN 0
    ELSE 10 * ToInt(SubSeq(s, 1, Len(s) - 1)) + DigitVal(Char(s, Len(s)))

IsLeap(y) == (y % 4 = 0 /\ y % 100 # 0) \/ y % 400 = 0

DaysInMonth(y, m) ==
    IF m = 2 THEN (IF IsLeap(y) THEN 29 ELSE 28)
    ELSE IF m \in {4, 6, 9, 11} THEN 30 ELSE 31

\* date.fromisoformat on the form YYYY-MM-DD, the one form every Python 3
\* accepts: the date if it exists, else ValueError (<<>> here)
fromisoformat(s) ==
    IF /\ Len(s) = 10
       /\ AllDigits(SubSeq(s, 1, 4))
       /\ Char(s, 5) = "-"
       /\ AllDigits(SubSeq(s, 6, 7))
       /\ Char(s, 8) = "-"
       /\ AllDigits(SubSeq(s, 9, 10))
    THEN LET y == ToInt(SubSeq(s, 1, 4))
             m == ToInt(SubSeq(s, 6, 7))
             d == ToInt(SubSeq(s, 9, 10))
         IN  IF /\ y >= 1
                /\ m >= 1 /\ m <= 12
                /\ d >= 1 /\ d <= DaysInMonth(y, m)
             THEN <<[year |-> y, month |-> m, day |-> d]>>
             ELSE <<>>
    ELSE <<>>

\* n written in decimal with at least w digits
RECURSIVE Pad(_, _)
Pad(n, w) ==
    IF w <= 1 /\ n < 10 THEN Char(Digits, n + 1)
    ELSE Pad(n \div 10, w - 1) \o Char(Digits, (n % 10) + 1)

\* date.isoformat
isoformat(d) == Pad(d.year, 4) \o "-" \o Pad(d.month, 2) \o "-" \o Pad(d.day, 2)

----------------------------------------------------------------------------
(* Result.from_row.  A row (WebElement) is                                 *)
(*   [tds, title_links, number_links, author, source, source_href,         *)
(*    published, database]                                                 *)
(* where tds is the number of td cells, title_links the <a> elements of    *)
(* the title cell as [text, href], number_links the href attributes of     *)
(* the <a> elements of the number cell, and the rest the texts of the      *)
(* cells.  An href attribute is an Optional[str].                          *)

Raise(e) == [ok |-> FALSE, exc |-> e]
Return(v) == [ok |-> TRUE, val |-> v]

\* lines 45-52: the html_link of a title cell
html_link_not_decoded(title_links) ==
    IF Len(title_links) > 1
    THEN IF title_links[2].href = None THEN Raise("AttributeError")
         ELSE LET parts == split_once(title_links[2].href[1], "domain=")
              IN  IF Len(parts) < 2 THEN Raise("IndexError")
                  ELSE Return(Some(parts[2]))
    ELSE Return(None)

html_link_of(title_links) ==
    IF Len(title_links) > 1
    THEN IF title_links[2].href = None THEN Raise("AttributeError")
         ELSE LET parts == split_once(title_links[2].href[1], "domain=")
              IN  IF Len(parts) < 2 THEN Raise("IndexError")
                  ELSE Return(Some(unquote(parts[2])))
    ELSE Return(None)

\* lines 54-58: the download link of a number cell
download_of(number_links) ==
    IF Len(number_links) # 2 THEN Raise("ValueError")
    ELSE IF number_links[1] = None THEN Raise("TypeError")
    ELSE IF re_search_alert(number_links[1][1]) THEN Return(None)
    ELSE Return(number_links[1])

\* lines 60-62: the date of a published cell
published_date_of(text) ==
    LET tok == first_token(text)
    IN  IF tok = <<>> THEN Raise("IndexError")
        ELSE IF fromisoformat(tok[1]) = <<>> THEN Raise("ValueError")
        ELSE Return(fromisoformat(tok[1])[1])

DefaultDate == [year |-> 1, month |-> 1, day |-> 1]

\* a parser that puts a default date where the date does not parse
from_row_default_date(r) ==
    IF r.tds # 6 THEN Raise("ValueError")
    ELSE
    LET html == html_link_of(r.title_links)
        dl == download_of(r.number_links)
        pd == published_date_of(r.published)
    IN  IF ~html.ok THEN html
        ELSE IF ~dl.ok THEN dl
        ELSE IF Len(r.title_links) = 0 THEN Raise("IndexError")
        ELSE Return([title |-> r.title_links[1].text,
                     title_link |-> r.title_links[1].href,
                     html_link |-> html.val,
                     author |-> r.author,
                     source |-> r.source,
                     source_link |-> r.source_href,
                     date |-> IF pd.ok THEN pd.val ELSE DefaultDate,
                     download |-> dl.val,
                     database |-> r.database])

from_row(r) ==
    IF r.tds # 6 THEN Raise("ValueError")
    ELSE
    LET html == html_link_of(r.title_links)
        dl == download_of(r.number_links)
        pd == published_date_of(r.published)
    IN  IF ~html.ok THEN html
        ELSE IF ~dl.ok THEN dl
        ELSE IF ~pd.ok THEN pd
        ELSE IF Len(r.title_links) = 0 THEN Raise("IndexError")
        ELSE Return([title |-> r.title_links[1].text,
                     title_link |-> r.title_links[1].href,
                     html_link |-> html.val,
                     author |-> r.author,
                     source |-> r.source,
                     source_link |-> r.source_href,
                     date |-> pd.val,
                     download |-> dl.val,
                     database |-> r.database])

----------------------------------------------------------------------------
(* Result.as_bib.  id is the hex text of the uuid1 the call draws; the     *)
(* result is <<>> for Python's None and <<entry>> for a dict.              *)

\* an exporter that takes the url of a thesis from html_link
as_bib_thesis_html(self, id) ==
    IF self.database = "qikan" \/ self.database = "jikan"
    THEN <<[ID |-> id,
            ENTRYTYPE |-> "article",
            author |-> self.author,
            title |-> self.title,
            journaltitle |-> self.source,
            date |-> isoformat(self.date),
            url |-> self.html_link]>>
    ELSE IF self.database = "boshi"
    THEN <<[ID |-> id,
            ENTRYTYPE |-> "phdthesis",
            author |-> self.author,
            title |-> self.title,
            institution |-> self.source,
            date |-> isoformat(self.date),
            url |-> self.html_link]>>
    ELSE IF self.database = "shuoshi"
    THEN <<[ID |-> id,
            ENTRYTYPE |-> "mastersthesis",
            author |-> self.author,
            title |-> self.title,
            institution |-> self.source,
            date |-> isoformat(self.date),
            url |-> self.html_link]>>
    ELSE <<>>

as_bib(self, id) ==
    IF self.database = "qikan" \/ self.database = "jikan"
    THEN <<[ID |-> id,
            ENTRYTYPE |-> "article",
            author |-> self.author,
            title |-> self.title,
            journaltitle |-> self.source,
            date |-> isoformat(self.date),
            url |-> self.html_link]>>
    ELSE IF self.database = "boshi"
    THEN <<[ID |-> id,
            ENTRYTYPE |-> "phdthesis",
            author |-> self.author,
            title |-> self.title,
            institution |-> self.source,
            date |-> isoformat(self.date),
            url |-> self.download]>>
    ELSE IF self.database = "shuoshi"
    THEN <<[ID |-> id,
            ENTRYTYPE |-> "mastersthesis",
            author |-> self.author,
            title |-> self.title,
            institution |-> self.source,
            date |-> isoformat(self.date),
            url |-> self.download]>>
    ELSE <<>>

----------------------------------------------------------------------------
(* The results view the browser shows: a site of site_articles results,    *)
(* per_page of them on a page, numbered 1..site_articles in document       *)
(* order.  Row bad_row, if any, is malformed.                              *)

RedirectHref ==
    "http://big5.oversea.cnki.net/kns55/ReadRedirectPage.aspx?flag=html&domain=http%3a%2f%2fkns.cnki.net%2fKXReader%2fDetail%3fdbcode%3dCJFD%26filename%3dZDXB202006009"

DetailHref ==
    "http://big5.oversea.cnki.net/kns55/detail/detail.aspx?recid=&FileName=ZDXB202006009&DbName=CJFDLAST2021&DbCode=CJFD"

DownloadHref == "http://big5.oversea.cnki.net/kns55/download.aspx?filename=ZDXB202006009"

AlertHref == "javascript:alert('unavailable')"

SnoHref == "javascript:void(0)"

TitleLink == [text |-> "Mozi's Theory of Human Nature and Politics",
              href |-> Some(DetailHref)]

HtmlLink == [text |-> "HTML", href |-> Some(RedirectHref)]

\* the links of the rows of the site, with short paths
SiteTitleLink(r) ==
    [text |-> "title " \o Pad(r, 1),
     href |-> Some("detail.aspx?FileName=" \o Pad(r, 1))]

SiteHtmlLink(r) ==
    [text |-> "HTML",
     href |-> Some("Redirect.aspx?domain=http%3a%2f%2fkns%3ff%3d" \o Pad(r, 1))]

SiteDownloadHref(r) == "download.aspx?filename=" \o Pad(r, 1)

\* a well-formed row: odd rows are journal articles with a second title
\* link, even rows are doctoral theses without a download
GoodRow(r) ==
    [tds |-> 6,
     title_links |-> IF r % 2 = 1
                     THEN <<SiteTitleLink(r), SiteHtmlLink(r)>>
                     ELSE <<SiteTitleLink(r)>>,
     number_links |-> IF r % 2 = 1
                      THEN <<Some(SiteDownloadHref(r)), Some(SnoHref)>>
                      ELSE <<Some(AlertHref), Some(SnoHref)>>,
     author |-> "Xie Qiyang",
     source |-> "News",
     source_href |-> None,
     published |-> "2020-12-28 09:15",
     database |-> IF r % 2 = 1 THEN "qikan" ELSE "boshi"]

\* the malformed rows: a date that does not exist, a missing cell, a second
\* title link without "domain="
BadRows(r) ==
    <<[GoodRow(r) EXCEPT !.published = "2021-02-30"],
      [GoodRow(r) EXCEPT !.tds = 5],
      [GoodRow(r) EXCEPT !.title_links =
          <<SiteTitleLink(r),
            [text |-> "HTML", href |-> SiteTitleLink(r).href]>>]>>

SiteRow(r) == IF r = bad_row THEN BadRows(r)[bad_kind] ELSE GoodRow(r)

\* the pages the site has; an empty result list is still one (empty) page
SitePages == IF site_articles = 0 THEN 1
             ELSE (site_articles + per_page - 1) \div per_page

\* number of data rows of site page p
RowsOnPage(p) ==
    LET left == site_articles - (p - 1) * per_page
    IN  IF left <= 0 THEN 0 ELSE IF left < per_page THEN left ELSE per_page

\* number of the row at position i of site page p
RowNumber(p, i) == (p - 1) * per_page + i

\* find_elements_by_xpath('//table[@class="GridTableContent"]//tr[position() > 1]')
\* on site page p: the data rows in document order
find_rows(p) == [i \in 1..RowsOnPage(p) |-> SiteRow(RowNumber(p, i))]

----------------------------------------------------------------------------
(* SearchResults and loop_through_results.                                 *)

\* math.ceil(n_articles / per_page)
ceil_div(a, b) == (a + b - 1) \div b

\* number_of_articles_and_pages: what it returns on the view shown
number_of_articles_and_pages ==
    <<site_articles, ceil_div(site_articles, per_page)>>

\* SearchResults(driver) keeps the driver and reads nothing from the page:
\* the count of metadata reads after constructing one
SearchResults_init_rereads(m) == m + 1

SearchResults_init(m) == m

\* the driver calls of get_element_and_stop_page: found says whether the
\* wait found the control before its timeout
get_element_no_stop(found) == <<"locate">>

get_element_and_stop_page(found) ==
    IF found THEN <<"locate", "window.stop">> ELSE <<"locate">>

\* line 232: the break condition
StopWalk_no_cap(p, n) == p >= n

StopWalk_strict(p, n) == p > n \/ p >= PageCap

StopWalk(p, n) == p >= n \/ p >= PageCap

\* the for loop of get_structured_elements has no row left
RowsExhausted_off_by_one(i, rs) == i + 1 >= Len(rs)

RowsExhausted(i, rs) == i >= Len(rs)

IdleRow == [row |-> None, parsed |-> <<>>, bib |-> <<>>, uuid_clock |-> 0]

Init ==
    /\ pc = "start"
    /\ n_articles = 0
    /\ n_pages = 0
    /\ page = 0
    /\ rows = <<>>
    /\ idx = 0
    /\ out = <<>>
    /\ err = "none"
    /\ site_articles \in 0..MaxArticles
    /\ per_page \in 1..MaxPerPage
    /\ bad_row \in 0..site_articles
    /\ bad_kind \in 1..Len(BadRows(0))
    /\ (bad_row = 0 => bad_kind = 1)
    /\ cur = 1
    /\ reads = <<>>
    /\ prov = <<>>
    /\ meta_reads = 0
    /\ nav_log = <<>>
    /\ nav_calls = 0
    /\ nav_result = "none"
    /\ click_fails = 0
    /\ row = IdleRow.row
    /\ parsed = IdleRow.parsed
    /\ bib = IdleRow.bib
    /\ uuid_clock = IdleRow.uuid_clock

site_vars == <<site_articles, per_page, bad_row, bad_kind>>

\* lines 219-224: read the metadata once and enter the loop
Start ==
    /\ pc = "start"
    /\ n_articles' = number_of_articles_and_pages[1]
    /\ n_pages' = number_of_articles_and_pages[2]
    /\ meta_reads' = meta_reads + 1
    /\ page' = 1
    /\ pc' = "scrape"
    /\ UNCHANGED <<rows, idx, out, err, cur, reads, prov, nav_log, nav_calls,
                   nav_result, click_fails>>
    /\ UNCHANGED site_vars
    /\ UNCHANGED row_vars

\* lines 226-230 and 193-195: get_structured_elements looks the rows up
Scrape ==
    /\ pc = "scrape"
    /\ rows' = find_rows(cur)
    /\ idx' = 0
    /\ reads' = Append(reads, cur)
    /\ pc' = "rows"
    /\ UNCHANGED <<n_articles, n_pages, page, out, err, cur, prov, meta_reads,
                   nav_log, nav_calls, nav_result, click_fails>>
    /\ UNCHANGED site_vars
    /\ UNCHANGED row_vars

\* lines 197-198 and 230: parse the next row and yield it, or let the
\* exception of from_row leave the generator
YieldRow ==
    /\ pc = "rows"
    /\ ~RowsExhausted(idx, rows)
    /\ LET res == from_row(rows[idx + 1])
       IN  IF res.ok
           THEN /\ out' = Append(out, res.val)
                /\ prov' = Append(prov, <<Len(reads), idx + 1>>)
                /\ idx' = idx + 1
                /\ UNCHANGED <<pc, err>>
           ELSE /\ err' = res.exc
                /\ pc' = "error"
                /\ UNCHANGED <<out, prov, idx>>
    /\ UNCHANGED <<n_articles, n_pages, page, rows, cur, reads, meta_reads,
                   nav_log, nav_calls, nav_result, click_fails>>
    /\ UNCHANGED site_vars
    /\ UNCHANGED row_vars

\* lines 232-233: after the page's rows, break or go on
CheckStop ==
    /\ pc = "rows"
    /\ RowsExhausted(idx, rows)
    /\ pc' = IF StopWalk(page, n_pages) THEN "done" ELSE "next"
    /\ UNCHANGED <<n_articles, n_pages, page, rows, idx, out, err, cur, reads,
                   prov, meta_reads, nav_log, nav_calls, nav_result,
                   click_fails>>
    /\ UNCHANGED site_vars
    /\ UNCHANGED row_vars

\* lines 235-236 and 207-215, the control is not found before the timeout:
\* wait.until raises TimeoutException outside the try of next_page
NextPageNotLocated ==
    /\ pc = "next"
    /\ nav_calls' = nav_calls + 1
    /\ nav_log' = get_element_and_stop_page(FALSE)
    /\ nav_result' = "not_located"
    /\ err' = "TimeoutException"
    /\ pc' = "error"
    /\ UNCHANGED <<n_articles, n_pages, page, rows, idx, out, cur, reads, prov,
                   meta_reads, click_fails>>
    /\ UNCHANGED site_vars
    /\ UNCHANGED row_vars

\* lines 235-236 and 207-215, the control is found: it is clicked, the click
\* either navigates or raises and is caught; next_page returns None either
\* way and the loop goes on with a new SearchResults
NextPageLocated ==
    /\ pc = "next"
    /\ cur < SitePages
    /\ nav_calls' = nav_calls + 1
    /\ nav_log' = get_element_and_stop_page(TRUE) \o <<"click">>
    /\ \E clicked \in BOOLEAN :
          IF clicked
          THEN /\ cur' = cur + 1
               /\ nav_result' = "navigated"
               /\ UNCHANGED click_fails
          ELSE /\ click_fails < MaxClickFail
               /\ click_fails' = click_fails + 1
               /\ nav_result' = "click_failed"
               /\ UNCHANGED cur
    /\ meta_reads' = SearchResults_init(meta_reads)
    /\ page' = page + 1
    /\ pc' = "scrape"
    /\ UNCHANGED <<n_articles, n_pages, rows, idx, out, err, reads, prov>>
    /\ UNCHANGED site_vars
    /\ UNCHANGED row_vars

Next ==
    \/ Start
    \/ Scrape
    \/ YieldRow
    \/ CheckStop
    \/ NextPageNotLocated
    \/ NextPageLocated

Spec == Init /\ [][Next]_vars

----------------------------------------------------------------------------
(* The row parser and the exporter on their own: a row drawn from Rows is  *)
(* parsed once and the Result exported up to MaxExports times.             *)

TitleCells ==
    {<<>>,
     <<TitleLink>>,
     <<TitleLink, HtmlLink>>,
     <<TitleLink, [text |-> "HTML", href |-> Some(DetailHref)]>>,
     <<TitleLink, [text |-> "HTML",
                   href |-> Some("r.aspx?domain=a%2Fb%3Fx%3D1&domain=c%20d")]>>,
     <<TitleLink, [text |-> "HTML", href |-> Some("r.aspx?domain=")]>>,
     <<TitleLink, [text |-> "HTML", href |-> Some("r.aspx?domain=100%&x=%zz%7e")]>>,
     <<TitleLink, [text |-> "HTML", href |-> None]>>,
     <<[text |-> "", href |-> None]>>,
     <<TitleLink, HtmlLink, [text |-> "PDF", href |-> Some(DownloadHref)]>>}

NumberCells ==
    {<<Some(DownloadHref), Some(SnoHref)>>,
     <<Some(AlertHref), Some(SnoHref)>>,
     <<Some(AlertPattern), Some(SnoHref)>>,
     <<None, Some(SnoHref)>>,
     <<Some(DownloadHref)>>}

PublishedTexts ==
    {"2020-12-28", "2020-12-28 09:15", " 2021-02-28\n", "2020-02-29",
     "0987-06-05\t12:00", "2021-02-30", "2020-13-01", "2020-1-01",
     "n.d.", "  ", ""}

Databases == {"qikan", "jikan", "boshi", "shuoshi", "baozhi", ""}

Rows ==
    {[tds |-> 6, title_links |-> t, number_links |-> n, author |-> "Xie Qiyang",
      source |-> "Vocational University News", source_href |-> None,
      published |-> p, database |-> d] :
        t \in TitleCells, n \in NumberCells, p \in PublishedTexts,
        d \in Databases}
    \cup {[GoodRow(1) EXCEPT !.tds = k] : k \in {0, 5, 7}}

InitRow ==
    /\ pc = "idle"
    /\ n_articles = 0
    /\ n_pages = 0
    /\ page = 0
    /\ rows = <<>>
    /\ idx = 0
    /\ out = <<>>
    /\ err = "none"
    /\ site_articles = 0
    /\ per_page = 1
    /\ bad_row = 0
    /\ bad_kind = 1
    /\ cur = 1
    /\ reads = <<>>
    /\ prov = <<>>
    /\ meta_reads = 0
    /\ nav_log = <<>>
    /\ nav_calls = 0
    /\ nav_result = "none"
    /\ click_fails = 0
    /\ row \in {Some(r) : r \in Rows}
    /\ parsed = <<>>
    /\ bib = <<>>
    /\ uuid_clock = 0

\* Result.from_row(row)
ParseRow ==
    /\ pc = "idle"
    /\ parsed = <<>>
    /\ parsed' = <<from_row(row[1])>>
    /\ UNCHANGED <<row, bib, uuid_clock>>
    /\ UNCHANGED walk_vars

\* str(uuid.uuid1().hex) of the n-th identifier drawn: distinct per call
uuid1_hex(n) == Pad(n, 32)

\* result.as_bib() on the parsed Result
Export ==
    /\ pc = "idle"
    /\ parsed # <<>>
    /\ parsed[1].ok
    /\ uuid_clock < MaxExports
    /\ uuid_clock' = uuid_clock + 1
    /\ bib' = as_bib(parsed[1].val, uuid1_hex(uuid_clock + 1))
    /\ UNCHANGED <<row, parsed>>
    /\ UNCHANGED walk_vars

NextRow ==
    \/ ParseRow
    \/ Export

SpecRow == InitRow /\ [][NextRow]_vars

----------------------------------------------------------------------------
(* Properties of the walker, checked under Spec.                           *)

Min(a, b) == IF a < b THEN a ELSE b

Max(a, b) == IF a > b THEN a ELSE b

DistinctReads == Cardinality({reads[i] : i \in 1..Len(reads)})

\* C1 as stated: a walk that ends without error has read exactly
\* min(n_pages, 10) pages, or fewer after a next_page that did not navigate
C1_Original ==
    pc = "done" =>
        \/ DistinctReads = Min(n_pages, PageCap)
        \/ DistinctReads < Min(n_pages, PageCap) /\ click_fails > 0

PagesToRead == Max(1, Min(n_pages, PageCap))

\* C1 amended: a walk never makes more than max(1, min(n_pages, 10)) row
\* lookups, a walk that ends without error has made exactly that many, and
\* the distinct pages it read are fewer by the clicks that failed
C1_PagesRead ==
    /\ Len(reads) <= PagesToRead
    /\ pc = "done" =>
          /\ err = "none"
          /\ Len(reads) = PagesToRead
          /\ DistinctReads = PagesToRead - click_fails

C1_Witness ==
    /\ pc = "done"
    /\ n_pages > PageCap
    /\ Len(reads) = PageCap
    /\ click_fails = 1

\* C2: no row lookup of a walk reads a page an earlier lookup of the walk
\* has read
C2_NoRevisit ==
    \A i, j \in 1..Len(reads) : i < j => reads[i] # reads[j]

\* C3: when the next-page control is not found or its click fails, nothing
\* is raised and the walk ends there
C3_StopsOnNoNext ==
    nav_result \in {"not_located", "click_failed"} =>
        /\ err = "none"
        /\ pc = "done"

BadPage == ((bad_row - 1) \div per_page) + 1

BadPos == bad_row - (BadPage - 1) * per_page

\* the row behind the k-th yield
RowOfYield(k) == RowNumber(reads[prov[k][1]], prov[k][2])

C4_NoRecord ==
    bad_row # 0 =>
        /\ \A k \in 1..Len(prov) : RowOfYield(k) < bad_row
        /\ pc \in {"next", "done"} => reads[Len(reads)] < BadPage
        /\ pc = "rows" /\ reads[Len(reads)] = BadPage => idx < BadPos
        /\ pc = "error" /\ nav_result # "not_located" =>
              /\ err \in {"ValueError", "IndexError"}
              /\ reads[Len(reads)] = BadPage
              /\ idx = BadPos - 1

\* out changes only by the whole Result of a row that parses
C4_WholeResult ==
    out' # out =>
        /\ pc = "rows"
        /\ idx < Len(rows)
        /\ from_row(rows[idx + 1]).ok
        /\ out' = Append(out, from_row(rows[idx + 1]).val)
        /\ out'[Len(out')].title = rows[idx + 1].title_links[1].text
        /\ <<isoformat(out'[Len(out')].date)>>
              = first_token(rows[idx + 1].published)

\* C4: a row from_row fails on ends the walk with from_row's exception: no
\* Result is yielded for that row or for any row after it, every Result
\* yielded is the whole Result of a row that parses, and after the
\* exception nothing is yielded, looked up or navigated
C4_ParseErrorAborts ==
    /\ []C4_NoRecord
    /\ [][C4_WholeResult]_vars
    /\ [][pc = "error" => UNCHANGED <<out, reads, nav_calls, pc>>]_vars

C4_Witness ==
    /\ pc = "error"
    /\ err = "ValueError"
    /\ bad_row # 0
    /\ bad_row < site_articles
    /\ Len(out) >= 2
    /\ nav_calls >= 1

\* C5: a walk yields at most per_page * 10 Results
C5_AtMostTenPages == Len(out) <= per_page * PageCap

C5_Witness ==
    /\ pc = "done"
    /\ Len(out) = per_page * PageCap
    /\ site_articles > per_page * PageCap

\* C8 as stated: the metadata is read once for each page, before the rows
\* of that page are looked up
C8_Original == pc = "rows" => meta_reads = Len(reads)

\* C8 amended: the metadata is read once, at the entry of the walk and before
\* the first row lookup, and n_articles and n_pages keep that value over all
\* pages of the walk
C8_ReadOnceAtEntry ==
    /\ [](/\ pc = "start" => meta_reads = 0 /\ reads = <<>>
          /\ pc \in {"scrape", "rows", "next", "done", "error"} =>
                /\ meta_reads = 1
                /\ n_articles = site_articles
                /\ n_pages = ceil_div(site_articles, per_page))
    /\ [][pc # "start" => UNCHANGED <<n_articles, n_pages>>]_vars

C8_Witness ==
    /\ pc = "rows"
    /\ page = 3
    /\ Len(reads) = 3
    /\ meta_reads = 1

\* C9 as stated: within a next_page call window.stop never comes before the
\* click
C9_Original ==
    \A i, j \in 1..Len(nav_log) :
        nav_log[i] = "window.stop" /\ nav_log[j] = "click" => j < i

\* C9 amended: a next_page call first waits for the control, then, if it
\* was found, calls window.stop and only then clicks the control; if it was
\* not found neither window.stop nor the click happens
C9_StopBeforeClick ==
    /\ nav_result = "none" => nav_log = <<>>
    /\ nav_result = "not_located" => nav_log = <<"locate">>
    /\ nav_result \in {"navigated", "click_failed"} =>
          nav_log = <<"locate", "window.stop", "click">>

C9_Witness ==
    /\ nav_result = "navigated"
    /\ Len(nav_log) = 3
    /\ nav_log[3] = "click"
    /\ cur = 2

\* C10: next_page is called only when all rows of the one lookup of the
\* current page have been taken, every visit of a page makes one lookup
\* whose rows stay as looked up, and the Results come out in the order of
\* the lookups and, within a lookup, in document order without gaps
C10_DrainBeforeNavigate ==
    /\ pc = "next" => idx = Len(rows)
    /\ pc \in {"rows", "next", "done"} =>
          /\ Len(reads) = page
          /\ nav_calls = page - 1
          /\ rows = find_rows(reads[page])
    /\ Len(prov) = Len(out)
    /\ \A k \in 1..Len(prov) :
          out[k].title = GoodRow(RowOfYield(k)).title_links[1].text
    /\ Len(prov) > 0 => prov[1][2] = 1
    /\ \A k \in 1..(Len(prov) - 1) :
          \/ prov[k + 1] = <<prov[k][1], prov[k][2] + 1>>
          \/ /\ prov[k + 1] = <<prov[k][1] + 1, 1>>
             /\ prov[k][2] = RowsOnPage(reads[prov[k][1]])

C10_Witness ==
    /\ pc = "next"
    /\ Len(rows) = 2
    /\ idx = 2
    /\ Len(out) >= 4

----------------------------------------------------------------------------
(* Properties of the row parser and the exporter, checked under SpecRow.   *)

TheRow == row[1]

TheResult == parsed[1].val

\* what every entry as_bib produces carries
C6_Common(e) ==
    /\ e.author = TheResult.author
    /\ e.title = TheResult.title
    /\ Len(e.date) = 10
    /\ fromisoformat(e.date) = <<TheResult.date>>
    /\ <<e.date>> = first_token(TheRow.published)

\* C6: as_bib gives an article with journaltitle = source and url =
\* html_link for "qikan" and "jikan", a phdthesis for "boshi" and a
\* mastersthesis for "shuoshi" with institution = source and url =
\* download, and None for every other database; each entry carries the
\* author, the title and the ISO date of the Result
C6_AsBib ==
    uuid_clock > 0 =>
        IF TheResult.database \in {"qikan", "jikan"}
        THEN /\ Len(bib) = 1
             /\ bib[1].ENTRYTYPE = "article"
             /\ bib[1].journaltitle = TheResult.source
             /\ bib[1].url = TheResult.html_link
             /\ C6_Common(bib[1])
        ELSE IF TheResult.database \in {"boshi", "shuoshi"}
        THEN /\ Len(bib) = 1
             /\ bib[1].ENTRYTYPE =
                   (IF TheResult.database = "boshi" THEN "phdthesis"
                    ELSE "mastersthesis")
             /\ bib[1].institution = TheResult.source
             /\ bib[1].url = TheResult.download
             /\ C6_Common(bib[1])
        ELSE bib = <<>>

C6_Witness ==
    /\ uuid_clock > 0
    /\ bib # <<>>
    /\ TheResult.database = "boshi"
    /\ TheResult.download # None
    /\ TheResult.html_link # None
    /\ bib[1].url = Some(DownloadHref)

\* s with every character written as its escape %xx
RECURSIVE quote_all(_)
quote_all(s) ==
    IF s = "" THEN ""
    ELSE LET c == Char(s, 1)
             b == IF Find(AsciiLow, c) > 0 THEN Find(AsciiLow, c) + 31
                  ELSE Find(AsciiHigh, c) + 96
         IN  "%" \o Char(HexDigits, (b \div 16) + 1)
                 \o Char(HexDigits, (b % 16) + 1)
                 \o quote_all(SubSeq(s, 2, Len(s)))

\* dec is enc percent-decoded: escaping every character of dec gives enc
\* with its escapes in lower case and its other characters escaped
RECURSIVE AllEscaped(_)
AllEscaped(enc) ==
    IF enc = "" THEN ""
    ELSE IF /\ Char(enc, 1) = "%"
            /\ Len(enc) >= 3
            /\ IsHex(Char(enc, 2))
            /\ IsHex(Char(enc, 3))
         THEN "%" \o Char(HexDigits, HexVal(Char(enc, 2)) + 1)
                  \o Char(HexDigits, HexVal(Char(enc, 3)) + 1)
                  \o AllEscaped(SubSeq(enc, 4, Len(enc)))
         ELSE quote_all(Char(enc, 1)) \o AllEscaped(SubSeq(enc, 2, Len(enc)))

DecodesTo(enc, dec) == quote_all(dec) = AllEscaped(enc)

\* suf is what follows the first "domain=" of href
AfterFirstDomain(href, suf) ==
    \E i \in 1..Len(href) :
        /\ StartsAt(href, "domain=", i)
        /\ \A j \in 1..(i - 1) : ~StartsAt(href, "domain=", j)
        /\ suf = SubSeq(href, i + 7, Len(href))

============================================================================
